---- MODULE Spec2Model ----
(***************************************************************************)
(* Model of the sysz codec subsystem: encode/base64.rs, encode/hex.rs and  *)
(* math/bin.rs.  A text (&str / String) is a sequence of Unicode scalar    *)
(* values; a byte buffer (&[u8] / Vec<u8>) is a sequence of 0..255.  The   *)
(* two are related by AsBytes (UTF-8 encoding) and FromUtf8 (validating    *)
(* UTF-8 decoding).  A Result is a record: Ok(v) or Err(msg, ch), every    *)
(* error being Error::InvalidSyntax.                                       *)
(***************************************************************************)
EXTENDS Integers, Sequences, FiniteSets, TLC

VARIABLES input, op, result, decode_table, threads

vars == <<input, op, result, decode_table, threads>>

---------------------------------------------------------------------------
(* Results                                                                 *)

NoChar == 0 - 1

Ok(v) == [ok |-> TRUE, val |-> v, kind |-> "none", msg |-> "", ch |-> NoChar]

ErrCh(m, c) == [ok |-> FALSE, val |-> <<>>, kind |-> "InvalidSyntax", msg |-> m, ch |-> c]

Err(m) == ErrCh(m, NoChar)

(* A panic (unwrap on None, unreachable!()) is not a returned value.       *)
Panic(m) == [ok |-> FALSE, val |-> <<>>, kind |-> "panic", msg |-> m, ch |-> NoChar]

---------------------------------------------------------------------------
(* u8 arithmetic                                                           *)

Pow2(n) == CASE n = 0 -> 1 [] n = 1 -> 2 [] n = 2 -> 4 [] n = 3 -> 8
             [] n = 4 -> 16 [] n = 5 -> 32 [] n = 6 -> 64 [] n = 7 -> 128
             [] OTHER -> 256

Bit(x, i) == (x \div Pow2(i)) % 2

Shr(x, n) == x \div Pow2(n)

Shl(x, n) == (x * Pow2(n)) % 256

BitAnd(a, b) ==
    LET t(i) == IF Bit(a, i) = 1 /\ Bit(b, i) = 1 THEN Pow2(i) ELSE 0
    IN  t(0) + t(1) + t(2) + t(3) + t(4) + t(5) + t(6) + t(7)

BitOr(a, b) ==
    LET t(i) == IF Bit(a, i) = 1 \/ Bit(b, i) = 1 THEN Pow2(i) ELSE 0
    IN  t(0) + t(1) + t(2) + t(3) + t(4) + t(5) + t(6) + t(7)

---------------------------------------------------------------------------
(* Texts and bytes: str::as_bytes, String::from_utf8, char predicates      *)

IsCont(b) == b >= 128 /\ b <= 191

Utf8Char(c) ==
    IF c < 128 THEN <<c>>
    ELSE IF c < 2048 THEN <<192 + (c \div 64), 128 + (c % 64)>>
    ELSE IF c < 65536 THEN
        <<224 + (c \div 4096), 128 + ((c \div 64) % 64), 128 + (c % 64)>>
    ELSE <<240 + (c \div 262144), 128 + ((c \div 4096) % 64),
           128 + ((c \div 64) % 64), 128 + (c % 64)>>

RECURSIVE AsBytes(_)
AsBytes(t) == IF t = <<>> THEN <<>> ELSE Utf8Char(Head(t)) \o AsBytes(Tail(t))

(* Length in bytes of the first well-formed UTF-8 scalar of bs, 0 if none. *)
Utf8Width(bs) ==
    LET n == Len(bs)
        b0 == bs[1]
    IN  IF b0 < 128 THEN 1
        ELSE IF b0 >= 194 /\ b0 <= 223 /\ n >= 2 /\ IsCont(bs[2]) THEN 2
        ELSE IF b0 >= 224 /\ b0 <= 239 /\ n >= 3
                /\ IsCont(bs[2]) /\ IsCont(bs[3])
                /\ (b0 = 224 => bs[2] >= 160)
                /\ (b0 = 237 => bs[2] <= 159) THEN 3
        ELSE IF b0 >= 240 /\ b0 <= 244 /\ n >= 4
                /\ IsCont(bs[2]) /\ IsCont(bs[3]) /\ IsCont(bs[4])
                /\ (b0 = 240 => bs[2] >= 144)
                /\ (b0 = 244 => bs[2] <= 143) THEN 4
        ELSE 0

Utf8Scalar(bs, w) ==
    CASE w = 1 -> bs[1]
      [] w = 2 -> (bs[1] - 192) * 64 + (bs[2] - 128)
      [] w = 3 -> (bs[1] - 224) * 4096 + (bs[2] - 128) * 64 + (bs[3] - 128)
      [] OTHER -> (bs[1] - 240) * 262144 + (bs[2] - 128) * 4096
                  + (bs[3] - 128) * 64 + (bs[4] - 128)

RECURSIVE Utf8Chars(_, _)
Utf8Chars(bs, acc) ==
    IF bs = <<>> THEN Ok(acc)
    ELSE LET w == Utf8Width(bs)
         IN  IF w = 0 THEN Err("Invalid UTF-8")
             ELSE Utf8Chars(SubSeq(bs, w + 1, Len(bs)), Append(acc, Utf8Scalar(bs, w)))

FromUtf8(bs) == Utf8Chars(bs, <<>>)

is_ascii_digit(c) == c >= 48 /\ c <= 57

is_ascii_hexdigit(c) ==
    is_ascii_digit(c) \/ (c >= 65 /\ c <= 70) \/ (c >= 97 /\ c <= 102)

is_ascii_alphanumeric(b) ==
    is_ascii_digit(b) \/ (b >= 65 /\ b <= 90) \/ (b >= 97 /\ b <= 122)

is_whitespace(c) ==
    \/ (c >= 9 /\ c <= 13)
    \/ c \in {32, 133, 160, 5760, 8232, 8233, 8239, 8287, 12288}
    \/ (c >= 8192 /\ c <= 8202)

(* Mutant: 'a'..'f' are given the values 0..5.                             *)
to_digit16_LowerFromZero(c) ==
    IF is_ascii_digit(c) THEN c - 48
    ELSE IF c >= 65 /\ c <= 70 THEN c - 55
    ELSE IF c >= 97 /\ c <= 102 THEN c - 97
    ELSE NoChar

to_digit16(c) ==
    IF is_ascii_digit(c) THEN c - 48
    ELSE IF c >= 65 /\ c <= 70 THEN c - 55
    ELSE IF c >= 97 /\ c <= 102 THEN c - 87
    ELSE NoChar

---------------------------------------------------------------------------
(* encode/base64.rs                                                        *)

PAD == 61

(* Mutant: the URL-safe alphabet, '-' and '_' for the last two symbols.    *)
BASE64_CHARS_UrlSafe ==
    [i \in 1..26 |-> 64 + i] \o [i \in 1..26 |-> 96 + i]
        \o [i \in 1..10 |-> 47 + i] \o <<45, 95>>

BASE64_CHARS ==
    [i \in 1..26 |-> 64 + i] \o [i \in 1..26 |-> 96 + i]
        \o [i \in 1..10 |-> 47 + i] \o <<43, 47>>

(* BASE64_CHARS[idx] with the code's 0-based index. *)
B64Sym(idx) == BASE64_CHARS[idx + 1]

(* The table starts as [0xFF; 256]; entry BASE64_CHARS[i] is set to i.     *)
RECURSIVE BuildTable(_, _)
BuildTable(table, i) ==
    IF i < Len(BASE64_CHARS)
    THEN BuildTable([table EXCEPT ![B64Sym(i)] = i], i + 1)
    ELSE table

(* Mutant: the loop starts at 1, so 'A' keeps the 0xFF of the fill.         *)
build_decode_table_SkipsFirst == BuildTable([b \in 0..255 |-> 255], 1)

build_decode_table == BuildTable([b \in 0..255 |-> 255], 0)

DECODE_TABLE == build_decode_table

(* The loop over full 3-byte chunks, then the match on len - i.            *)
RECURSIVE EncodeLoop(_, _, _)
EncodeLoop(data, i, res) ==
    LET len == Len(data)
        at(k) == data[i + k + 1]
    IN  IF i + 3 <= len THEN
            EncodeLoop(data, i + 3,
                res \o << B64Sym(Shr(at(0), 2)),
                          B64Sym(BitOr(Shl(BitAnd(at(0), 3), 4), Shr(at(1), 4))),
                          B64Sym(BitOr(Shl(BitAnd(at(1), 15), 2), Shr(at(2), 6))),
                          B64Sym(BitAnd(at(2), 63)) >>)
        ELSE IF len - i = 1 THEN
            res \o << B64Sym(Shr(at(0), 2)),
                      B64Sym(Shl(BitAnd(at(0), 3), 4)),
                      PAD, PAD >>
        ELSE IF len - i = 2 THEN
            res \o << B64Sym(Shr(at(0), 2)),
                      B64Sym(BitOr(Shl(BitAnd(at(0), 3), 4), Shr(at(1), 4))),
                      B64Sym(Shl(BitAnd(at(1), 15), 2)),
                      PAD >>
        ELSE res

(* Mutant: the trailing group of 1 or 2 bytes is dropped.                  *)
encode_bytes_NoTail(data) ==
    EncodeLoop(SubSeq(data, 1, 3 * (Len(data) \div 3)), 0, <<>>)

(* The result is ASCII, so the String holds one char per pushed byte.      *)
encode_bytes(data) == EncodeLoop(data, 0, <<>>)

b64_encode(t) == encode_bytes(AsBytes(t))

(* Mutant: the second byte takes a1 >> 4 where the code takes a1 << 4.     *)
DecodeGroup_WrongShift(group) ==
    LET a0 == DECODE_TABLE[group[1]]
        a1 == DECODE_TABLE[group[2]]
        a2 == DECODE_TABLE[group[3]]
        a3 == DECODE_TABLE[group[4]]
        x0 == BitOr(Shl(a0, 2), Shr(a1, 4))
        x1 == BitOr(Shr(a1, 4), Shr(a2, 2))
        x2 == BitOr(Shl(a2, 6), a3)
    IN  IF a0 = 255 \/ a1 = 255 \/ (a2 = 255 /\ group[3] # PAD)
            \/ (a3 = 255 /\ group[4] # PAD)
            THEN Err("Invalid base64 character")
        ELSE IF group[3] = PAD THEN
            IF group[4] # PAD
            THEN Err("Invalid padding: expected '=' at position 4")
            ELSE Ok(<<x0>>)
        ELSE IF group[4] = PAD THEN Ok(<<x0, x1>>)
        ELSE Ok(<<x0, x1, x2>>)

(* Mutant: a '=' in third place is not required to be followed by '='.     *)
DecodeGroup_LoosePad(group) ==
    LET a0 == DECODE_TABLE[group[1]]
        a1 == DECODE_TABLE[group[2]]
        a2 == DECODE_TABLE[group[3]]
        a3 == DECODE_TABLE[group[4]]
        x0 == BitOr(Shl(a0, 2), Shr(a1, 4))
        x1 == BitOr(Shl(a1, 4), Shr(a2, 2))
        x2 == BitOr(Shl(a2, 6), a3)
    IN  IF a0 = 255 THEN ErrCh("Invalid base64 character", group[1])
        ELSE IF a1 = 255 THEN ErrCh("Invalid base64 character", group[2])
        ELSE IF a2 = 255 /\ group[3] # PAD
            THEN ErrCh("Invalid base64 character", group[3])
        ELSE IF a3 = 255 /\ group[4] # PAD
            THEN ErrCh("Invalid base64 character", group[4])
        ELSE IF group[3] = PAD THEN Ok(<<x0>>)
        ELSE IF group[4] = PAD THEN Ok(<<x0, x1>>)
        ELSE Ok(<<x0, x1, x2>>)

(* Mutant: the bits of the last symbol that reach no byte must be zero.    *)
DecodeGroup_StrictBits(group) ==
    LET a0 == DECODE_TABLE[group[1]]
        a1 == DECODE_TABLE[group[2]]
        a2 == DECODE_TABLE[group[3]]
        a3 == DECODE_TABLE[group[4]]
        x0 == BitOr(Shl(a0, 2), Shr(a1, 4))
        x1 == BitOr(Shl(a1, 4), Shr(a2, 2))
        x2 == BitOr(Shl(a2, 6), a3)
    IN  IF a0 = 255 THEN ErrCh("Invalid base64 character", group[1])
        ELSE IF a1 = 255 THEN ErrCh("Invalid base64 character", group[2])
        ELSE IF a2 = 255 /\ group[3] # PAD
            THEN ErrCh("Invalid base64 character", group[3])
        ELSE IF a3 = 255 /\ group[4] # PAD
            THEN ErrCh("Invalid base64 character", group[4])
        ELSE IF group[3] = PAD THEN
            IF group[4] # PAD
            THEN Err("Invalid padding: expected '=' at position 4")
            ELSE IF BitAnd(a1, 15) # 0 THEN Err("Invalid padding bits")
            ELSE Ok(<<x0>>)
        ELSE IF group[4] = PAD THEN
            IF BitAnd(a2, 3) # 0 THEN Err("Invalid padding bits")
            ELSE Ok(<<x0, x1>>)
        ELSE Ok(<<x0, x1, x2>>)

(* One iteration of the loop over blocks: Err, or Ok(bytes pushed).        *)
DecodeGroup(group) ==
    LET a0 == DECODE_TABLE[group[1]]
        a1 == DECODE_TABLE[group[2]]
        a2 == DECODE_TABLE[group[3]]
        a3 == DECODE_TABLE[group[4]]
        x0 == BitOr(Shl(a0, 2), Shr(a1, 4))
        x1 == BitOr(Shl(a1, 4), Shr(a2, 2))
        x2 == BitOr(Shl(a2, 6), a3)
    IN  IF a0 = 255 THEN ErrCh("Invalid base64 character", group[1])
        ELSE IF a1 = 255 THEN ErrCh("Invalid base64 character", group[2])
        ELSE IF a2 = 255 /\ group[3] # PAD
            THEN ErrCh("Invalid base64 character", group[3])
        ELSE IF a3 = 255 /\ group[4] # PAD
            THEN ErrCh("Invalid base64 character", group[4])
        ELSE IF group[3] = PAD THEN
            IF group[4] # PAD
            THEN Err("Invalid padding: expected '=' at position 4")
            ELSE Ok(<<x0>>)
        ELSE IF group[4] = PAD THEN Ok(<<x0, x1>>)
        ELSE Ok(<<x0, x1, x2>>)

(* Mutant: a group holding '=' is accepted only as the last group.         *)
RECURSIVE DecodeLoop_PadOnlyLast(_, _, _, _)
DecodeLoop_PadOnlyLast(bytes, i, num_blocks, res) ==
    IF i < num_blocks THEN
        LET start == i * 4
            g == DecodeGroup(SubSeq(bytes, start + 1, start + 4))
        IN  IF g.ok /\ bytes[start + 4] = PAD /\ i + 1 < num_blocks
                THEN Err("Invalid padding")
            ELSE IF g.ok
                THEN DecodeLoop_PadOnlyLast(bytes, i + 1, num_blocks, res \o g.val)
            ELSE g
    ELSE Ok(res)

RECURSIVE DecodeLoop(_, _, _, _)
DecodeLoop(bytes, i, num_blocks, res) ==
    IF i < num_blocks THEN
        LET start == i * 4
            g == DecodeGroup(SubSeq(bytes, start + 1, start + 4))
        IN  IF g.ok THEN DecodeLoop(bytes, i + 1, num_blocks, res \o g.val)
            ELSE g
    ELSE Ok(res)

(* Mutant: the characters are looked up before the length is checked.     *)
decode_bytes_CharsFirst(s) ==
    LET bytes == AsBytes(s)
        len == Len(bytes)
        bad == {k \in 1..len : DECODE_TABLE[bytes[k]] = 255 /\ bytes[k] # PAD}
    IN  IF bad # {}
        THEN ErrCh("Invalid base64 character", bytes[CHOOSE k \in bad : \A j \in bad : k <= j])
        ELSE IF len % 4 # 0 THEN Err("Base64 input length must be multiple of 4")
        ELSE IF len \div 4 = 0 THEN Ok(<<>>)
        ELSE DecodeLoop(bytes, 0, len \div 4, <<>>)

decode_bytes(s) ==
    LET bytes == AsBytes(s)
        len == Len(bytes)
    IN  IF len % 4 # 0 THEN Err("Base64 input length must be multiple of 4")
        ELSE IF len \div 4 = 0 THEN Ok(<<>>)
        ELSE DecodeLoop(bytes, 0, len \div 4, <<>>)

(* Mutant: the bytes become the text without the UTF-8 check, one char per *)
(* byte.                                                                   *)
b64_decode_Unchecked(s) == decode_bytes(s)

b64_decode(s) ==
    LET r == decode_bytes(s)
    IN  IF r.ok THEN FromUtf8(r.val) ELSE r

(* Mutant: padding_start is len - 1, so '=' may only be the last byte.     *)
b64_is_valid_PadLast(base64) ==
    LET bytes == AsBytes(base64)
        len == Len(bytes)
        okChar(b) == is_ascii_alphanumeric(b) \/ b = 43 \/ b = 47 \/ b = PAD
    IN  IF len % 4 # 0 THEN FALSE
        ELSE IF \E k \in 1..len : ~okChar(bytes[k]) THEN FALSE
        ELSE IF len >= 4 /\ \E i \in 0..(len - 1) :
                                bytes[i + 1] = PAD /\ i < len - 1 THEN FALSE
        ELSE TRUE

b64_is_valid(base64) ==
    LET bytes == AsBytes(base64)
        len == Len(bytes)
        okChar(b) == is_ascii_alphanumeric(b) \/ b = 43 \/ b = 47 \/ b = PAD
    IN  IF len % 4 # 0 THEN FALSE
        ELSE IF \E k \in 1..len : ~okChar(bytes[k]) THEN FALSE
        ELSE IF len >= 4 /\ \E i \in 0..(len - 1) :
                                bytes[i + 1] = PAD /\ i < len - 2 THEN FALSE
        ELSE TRUE

---------------------------------------------------------------------------
(* Shared shapes of encode/hex.rs and math/bin.rs                          *)

SPACE == 32

(* format's loop: i in 0..len/size, a space before every group but the     *)
(* first, then size times chars.next().unwrap().                           *)
RECURSIVE FormatLoop(_, _, _, _, _)
FormatLoop(cleaned, size, i, groups, res) ==
    IF i >= groups THEN Ok(res)
    ELSE IF (i + 1) * size > Len(cleaned) THEN Panic("unwrap on None")
    ELSE FormatLoop(cleaned, size, i + 1, groups,
            (IF i > 0 THEN Append(res, SPACE) ELSE res)
                \o SubSeq(cleaned, i * size + 1, (i + 1) * size))

---------------------------------------------------------------------------
(* encode/hex.rs                                                           *)

(* Mutant: the lowercase digit table.                                      *)
HEX_CHARS_LOWER == [i \in 1..10 |-> 47 + i] \o [i \in 1..6 |-> 96 + i]

HEX_CHARS_UPPER == [i \in 1..10 |-> 47 + i] \o [i \in 1..6 |-> 64 + i]

TO_UPPER_MASK == 223

TO_LOWER_MASK == 32

(* The String whose buffer was filled byte by byte through as_mut_vec: the *)
(* text those bytes spell, and undefined behaviour if they are not UTF-8.  *)
UnsafeString(bs) ==
    LET r == FromUtf8(bs)
    IN  IF r.ok THEN r
        ELSE [ok |-> FALSE, val |-> <<>>, kind |-> "undefined", msg |-> "String is not UTF-8",
              ch |-> NoChar]

(* Mutant: every ASCII lowercase letter is folded, not only 'a'..'f'.      *)
hex_to_uppercase_AllLetters(hex) ==
    LET bytes == AsBytes(hex)
    IN  UnsafeString([i \in 1..Len(bytes) |->
            IF bytes[i] >= 97 /\ bytes[i] <= 122
            THEN BitAnd(bytes[i], TO_UPPER_MASK) ELSE bytes[i]])

(* for i in 0..bytes.len(): b &= TO_UPPER_MASK when b is in b'a'..=b'f'.   *)
hex_to_uppercase(hex) ==
    LET bytes == AsBytes(hex)
    IN  UnsafeString([i \in 1..Len(bytes) |->
            IF bytes[i] >= 97 /\ bytes[i] <= 102
            THEN BitAnd(bytes[i], TO_UPPER_MASK) ELSE bytes[i]])

(* for i in 0..bytes.len(): b |= TO_LOWER_MASK when b is in b'A'..=b'F'.   *)
hex_to_lowercase(hex) ==
    LET bytes == AsBytes(hex)
    IN  UnsafeString([i \in 1..Len(bytes) |->
            IF bytes[i] >= 65 /\ bytes[i] <= 70
            THEN BitOr(bytes[i], TO_LOWER_MASK) ELSE bytes[i]])

(* for c in input.chars() { if c.is_ascii_hexdigit() { cleaned.push(c) } } *)
RECURSIVE hex_clean(_)
hex_clean(t) ==
    IF t = <<>> THEN <<>>
    ELSE IF is_ascii_hexdigit(Head(t)) THEN <<Head(t)>> \o hex_clean(Tail(t))
    ELSE hex_clean(Tail(t))

(* Mutant: a digit sets is_valid again, so only the last character that   *)
(* is not whitespace decides.                                              *)
RECURSIVE HexScan_NotSticky(_, _)
HexScan_NotSticky(t, is_valid) ==
    IF t = <<>> THEN is_valid
    ELSE IF is_ascii_hexdigit(Head(t)) THEN HexScan_NotSticky(Tail(t), TRUE)
    ELSE IF ~is_whitespace(Head(t)) THEN HexScan_NotSticky(Tail(t), FALSE)
    ELSE HexScan_NotSticky(Tail(t), is_valid)

(* The decode walk: is_valid is cleared by a char that is neither a digit  *)
(* nor whitespace, and never set again.                                    *)
RECURSIVE HexScan(_, _)
HexScan(t, is_valid) ==
    IF t = <<>> THEN is_valid
    ELSE IF is_ascii_hexdigit(Head(t)) THEN HexScan(Tail(t), is_valid)
    ELSE IF ~is_whitespace(Head(t)) THEN HexScan(Tail(t), FALSE)
    ELSE HexScan(Tail(t), is_valid)

(* while let (Some(c1), Some(c2)) = (chars.next(), chars.next())           *)
RECURSIVE HexPairs(_, _)
HexPairs(cleaned, bytes) ==
    IF Len(cleaned) < 2 THEN Ok(bytes)
    ELSE LET c1 == cleaned[1]
             c2 == cleaned[2]
             hi == to_digit16(c1)
             lo == to_digit16(c2)
         IN  IF hi = NoChar THEN ErrCh("Invalid hex character", c1)
             ELSE IF lo = NoChar THEN ErrCh("Invalid hex character", c2)
             ELSE HexPairs(SubSeq(cleaned, 3, Len(cleaned)),
                           Append(bytes, BitOr(Shl(hi, 4), lo)))

(* Mutant: whitespace is not skipped but marks the input invalid.          *)
hex_decode_NoWhitespace(hex) ==
    LET cleaned == hex_clean(hex)
        is_valid == \A k \in 1..Len(hex) : is_ascii_hexdigit(hex[k])
        len == Len(cleaned)
    IN  IF ~is_valid THEN Err("Non-hex character detected")
        ELSE IF len % 2 # 0 THEN Err("Hex string must have even length")
        ELSE LET b == HexPairs(cleaned, <<>>)
             IN  IF b.ok THEN FromUtf8(b.val) ELSE b

hex_decode(hex) ==
    LET cleaned == hex_clean(hex)
        is_valid == HexScan(hex, TRUE)
        len == Len(cleaned)
    IN  IF ~is_valid THEN Err("Non-hex character detected")
        ELSE IF len % 2 # 0 THEN Err("Hex string must have even length")
        ELSE LET b == HexPairs(cleaned, <<>>)
             IN  IF b.ok THEN FromUtf8(b.val) ELSE b

RECURSIVE HexEncodeLoop(_, _, _)
HexEncodeLoop(bytes, i, res) ==
    IF i >= Len(bytes) THEN res
    ELSE LET byte == bytes[i + 1]
         IN  HexEncodeLoop(bytes, i + 1,
                (IF i > 0 THEN Append(res, SPACE) ELSE res)
                    \o << HEX_CHARS_UPPER[Shr(byte, 4) + 1],
                          HEX_CHARS_UPPER[BitAnd(byte, 15) + 1] >>)

hex_encode(text) == HexEncodeLoop(AsBytes(text), 0, <<>>)

(* Mutant: the loose check also asks for an even number of digits.         *)
hex_is_valid_EvenCount(hex) ==
    /\ hex # <<>>
    /\ \A k \in 1..Len(hex) : is_whitespace(hex[k]) \/ is_ascii_hexdigit(hex[k])
    /\ Len(hex_clean(hex)) % 2 = 0

hex_is_valid(hex) ==
    hex # <<>> /\ \A k \in 1..Len(hex) :
                      is_whitespace(hex[k]) \/ is_ascii_hexdigit(hex[k])

(* The strict walk: digits are counted, whitespace skipped, and the first  *)
(* other character clears is_valid and breaks out of the loop.             *)
RECURSIVE HexStrictScan(_, _)
HexStrictScan(t, length) ==
    IF t = <<>> THEN [length |-> length, is_valid |-> TRUE]
    ELSE IF is_ascii_hexdigit(Head(t)) THEN HexStrictScan(Tail(t), length + 1)
    ELSE IF ~is_whitespace(Head(t)) THEN [length |-> length, is_valid |-> FALSE]
    ELSE HexStrictScan(Tail(t), length)

(* Mutant: whitespace is counted with the digits.                          *)
hex_is_valid_strict_CountsSpace(hex) ==
    LET r == HexStrictScan(hex, 0)
        length == Len(hex)
    IN  r.is_valid /\ length > 0 /\ length % 2 = 0

hex_is_valid_strict(hex) ==
    LET r == HexStrictScan(hex, 0)
    IN  r.is_valid /\ r.length > 0 /\ r.length % 2 = 0

(* Mutant: len is the length of the input as given, not of cleaned.        *)
hex_format_RawLen(hex) ==
    LET cleaned == hex_clean(hex)
        len == Len(hex)
    IN  IF len = 0 THEN Err("Empty hex string")
        ELSE IF len % 2 # 0
            THEN Err("Hexadecimal string length must be a multiple of 2")
        ELSE FormatLoop(cleaned, 2, 0, len \div 2, <<>>)

hex_format(hex) ==
    LET cleaned == hex_clean(hex)
        len == Len(cleaned)
    IN  IF len = 0 THEN Err("Empty hex string")
        ELSE IF len % 2 # 0
            THEN Err("Hexadecimal string length must be a multiple of 2")
        ELSE FormatLoop(cleaned, 2, 0, len \div 2, <<>>)

---------------------------------------------------------------------------
(* math/bin.rs                                                             *)

is_bin_digit(c) == c = 48 \/ c = 49

RECURSIVE bin_clean(_)
bin_clean(t) ==
    IF t = <<>> THEN <<>>
    ELSE IF is_bin_digit(Head(t)) THEN <<Head(t)>> \o bin_clean(Tail(t))
    ELSE bin_clean(Tail(t))

(* Mutant: a digit sets is_valid again.                                    *)
RECURSIVE BinScan_NotSticky(_, _)
BinScan_NotSticky(t, is_valid) ==
    IF t = <<>> THEN is_valid
    ELSE IF is_bin_digit(Head(t)) THEN BinScan_NotSticky(Tail(t), TRUE)
    ELSE IF ~is_whitespace(Head(t)) THEN BinScan_NotSticky(Tail(t), FALSE)
    ELSE BinScan_NotSticky(Tail(t), is_valid)

RECURSIVE BinScan(_, _)
BinScan(t, is_valid) ==
    IF t = <<>> THEN is_valid
    ELSE IF is_bin_digit(Head(t)) THEN BinScan(Tail(t), is_valid)
    ELSE IF ~is_whitespace(Head(t)) THEN BinScan(Tail(t), FALSE)
    ELSE BinScan(Tail(t), is_valid)

(* for i in 0..8 { if let Some(c) = chars.next() { byte |= bit << (7 - i) }*)
(* else { break } }: the position reached and the byte assembled.          *)
RECURSIVE BinBits(_, _, _, _)
BinBits(cleaned, pos, i, byte) ==
    IF i >= 8 \/ pos > Len(cleaned) THEN [pos |-> pos, byte |-> byte, panic |-> FALSE]
    ELSE LET c == cleaned[pos]
         IN  IF ~is_bin_digit(c) THEN [pos |-> pos, byte |-> byte, panic |-> TRUE]
             ELSE BinBits(cleaned, pos + 1, i + 1,
                          BitOr(byte, Shl(c - 48, 7 - i)))

(* while let Some(_) = chars.next() { ... bytes.push(byte) }: the loop     *)
(* condition itself takes one char from the iterator.                      *)
RECURSIVE BinBytes(_, _, _)
BinBytes(cleaned, pos, bytes) ==
    IF pos > Len(cleaned) THEN Ok(bytes)
    ELSE LET r == BinBits(cleaned, pos + 1, 0, 0)
         IN  IF r.panic THEN Panic("unreachable")
             ELSE BinBytes(cleaned, r.pos, Append(bytes, r.byte))

bin_decode(bin) ==
    LET cleaned == bin_clean(bin)
        is_valid == BinScan(bin, TRUE)
        len == Len(cleaned)
    IN  IF ~is_valid THEN Err("Non-binary character detected")
        ELSE IF len % 8 # 0 THEN Err("Binary string must have length multiple of 8")
        ELSE LET b == BinBytes(cleaned, 1, <<>>)
             IN  IF b.ok THEN FromUtf8(b.val) ELSE b

(* for shift in (0..8).rev() { push(if (byte >> shift) & 1 == 1 ...) }     *)
BinByte(byte) ==
    [k \in 1..8 |-> IF BitAnd(Shr(byte, 8 - k), 1) = 1 THEN 49 ELSE 48]

RECURSIVE BinEncodeLoop(_, _, _)
BinEncodeLoop(bytes, i, res) ==
    IF i >= Len(bytes) THEN res
    ELSE BinEncodeLoop(bytes, i + 1,
            (IF i > 0 THEN Append(res, SPACE) ELSE res) \o BinByte(bytes[i + 1]))

bin_encode(text) == BinEncodeLoop(AsBytes(text), 0, <<>>)

bin_is_valid(bin) ==
    bin # <<>> /\ \A k \in 1..Len(bin) :
                      is_whitespace(bin[k]) \/ is_bin_digit(bin[k])

RECURSIVE BinStrictScan(_, _)
BinStrictScan(t, count) ==
    IF t = <<>> THEN [count |-> count, is_valid |-> TRUE]
    ELSE IF is_bin_digit(Head(t)) THEN BinStrictScan(Tail(t), count + 1)
    ELSE IF ~is_whitespace(Head(t)) THEN [count |-> count, is_valid |-> FALSE]
    ELSE BinStrictScan(Tail(t), count)

bin_is_valid_strict(bin) ==
    LET r == BinStrictScan(bin, 0)
    IN  r.is_valid /\ r.count > 0 /\ r.count % 8 = 0

(* Mutant: groups of 4 digits.                                             *)
bin_format_Nibbles(bin) ==
    LET cleaned == bin_clean(bin)
        len == Len(cleaned)
    IN  IF len = 0 THEN Err("Empty binary string")
        ELSE IF len % 8 # 0 THEN Err("Binary string length must be multiple of 8")
        ELSE FormatLoop(cleaned, 4, 0, len \div 4, <<>>)

bin_format(bin) ==
    LET cleaned == bin_clean(bin)
        len == Len(cleaned)
    IN  IF len = 0 THEN Err("Empty binary string")
        ELSE IF len % 8 # 0 THEN Err("Binary string length must be multiple of 8")
        ELSE FormatLoop(cleaned, 8, 0, len \div 8, <<>>)

---------------------------------------------------------------------------
(* Inputs.  Characters are written as code points:                         *)
(*   '!' 33  ' ' 32  '/' 47  '0' 48  '1' 49  '4' 52  '=' 61  'F' 70        *)
(*   'A' 65  'B' 66  'Q' 81  'T' 84  'a' 97  'b' 98  'c' 99  'g' 103       *)
(*   U+00A0 160 (whitespace) and U+00E9 233, two bytes each in UTF-8       *)

MaxBufLen == 4

MaxB64Len == 4

MaxTextLen == 4

SeqsUpTo(S, n) == UNION {[1..k -> S] : k \in 0..n}

ByteVals == {0, 1, 77, 128, 195, 255}

(* Short buffers holding every byte value in every position of a group.    *)
AllByteBufs ==
    UNION {{<<b>>, <<b, 255 - b>>, <<255 - b, b, (b * 7) % 256>>} : b \in 0..255}

ByteBufs == SeqsUpTo(ByteVals, MaxBufLen) \cup AllByteBufs

B64Chars == {84, 81, 61, 47, 33, 233}

B64Groups == [1..4 -> {84, 81, 61}]

B64Texts ==
    SeqsUpTo(B64Chars, MaxB64Len)
        \cup {<<97, 98, 61, 99>>}
        \cup {encode_bytes(b) : b \in AllByteBufs}
        \cup {g \o h : g \in B64Groups, h \in B64Groups}
        \cup {<<84, B64Sym(j), 61, 61>> : j \in 0..63}
        \cup {<<84, 87, B64Sym(j), 61>> : j \in 0..63}

TextChars == {48, 49, 52, 70, 97, 103, 32}

Bin8 == [1..8 -> {48, 49}]

(* Scalar values at the edges of the 1-, 2-, 3- and 4-byte UTF-8 forms.    *)
EdgeChars ==
    (0..127) \cup {128, 2047, 2048, 8364, 55295, 57344, 65535, 65536, 128512, 1114111}

Texts ==
    SeqsUpTo(TextChars, MaxTextLen)
        \cup {<<c>> : c \in EdgeChars} \cup {<<c, 65, c>> : c \in EdgeChars}
        \cup {<<65>>, <<65, 66>>, <<233>>, <<52, 233>>, <<233, 32, 233>>,
              <<52, 160, 49>>, <<52, 32, 49, 32, 52, 50>>, <<52, 103, 50>>,
              <<48, 49, 48, 48, 48, 48, 48>>, <<52, 49, 52, 50>>}
        \cup Bin8 \cup {<<103>> \o b : b \in Bin8}
        \cup {bin_encode(<<a, b>>) : a \in {0, 65, 233}, b \in {49, 127}}

Bytes(b) == [kind |-> "bytes", val |-> b]

Text(t) == [kind |-> "text", val |-> t]

Pending == [ok |-> FALSE, val |-> <<>>, kind |-> "pending", msg |-> "", ch |-> NoChar]

---------------------------------------------------------------------------
(* One call of a codec function on the input: op names the function and    *)
(* result holds what it returned.                                          *)

Base64EncodeBytes ==
    /\ op = "init"
    /\ input.kind = "bytes"
    /\ op' = "base64.encode_bytes"
    /\ result' = Ok(encode_bytes(input.val))
    /\ UNCHANGED <<input, decode_table, threads>>

Base64Encode ==
    /\ op = "init"
    /\ input.kind = "text"
    /\ op' = "base64.encode"
    /\ result' = Ok(b64_encode(input.val))
    /\ UNCHANGED <<input, decode_table, threads>>

Base64DecodeBytes ==
    /\ op = "init"
    /\ input.kind = "text"
    /\ op' = "base64.decode_bytes"
    /\ result' = decode_bytes(input.val)
    /\ UNCHANGED <<input, decode_table, threads>>

Base64Decode ==
    /\ op = "init"
    /\ input.kind = "text"
    /\ op' = "base64.decode"
    /\ result' = b64_decode(input.val)
    /\ UNCHANGED <<input, decode_table, threads>>

Base64IsValid ==
    /\ op = "init"
    /\ input.kind = "text"
    /\ op' = "base64.is_valid"
    /\ result' = Ok(b64_is_valid(input.val))
    /\ UNCHANGED <<input, decode_table, threads>>

HexClean ==
    /\ op = "init"
    /\ input.kind = "text"
    /\ op' = "hex.clean"
    /\ result' = Ok(hex_clean(input.val))
    /\ UNCHANGED <<input, decode_table, threads>>

HexDecode ==
    /\ op = "init"
    /\ input.kind = "text"
    /\ op' = "hex.decode"
    /\ result' = hex_decode(input.val)
    /\ UNCHANGED <<input, decode_table, threads>>

HexEncode ==
    /\ op = "init"
    /\ input.kind = "text"
    /\ op' = "hex.encode"
    /\ result' = Ok(hex_encode(input.val))
    /\ UNCHANGED <<input, decode_table, threads>>

HexIsValid ==
    /\ op = "init"
    /\ input.kind = "text"
    /\ op' = "hex.is_valid"
    /\ result' = Ok(hex_is_valid(input.val))
    /\ UNCHANGED <<input, decode_table, threads>>

HexFormat ==
    /\ op = "init"
    /\ input.kind = "text"
    /\ op' = "hex.format"
    /\ result' = hex_format(input.val)
    /\ UNCHANGED <<input, decode_table, threads>>

BinClean ==
    /\ op = "init"
    /\ input.kind = "text"
    /\ op' = "binary.clean"
    /\ result' = Ok(bin_clean(input.val))
    /\ UNCHANGED <<input, decode_table, threads>>

BinDecode ==
    /\ op = "init"
    /\ input.kind = "text"
    /\ op' = "binary.decode"
    /\ result' = bin_decode(input.val)
    /\ UNCHANGED <<input, decode_table, threads>>

BinEncode ==
    /\ op = "init"
    /\ input.kind = "text"
    /\ op' = "binary.encode"
    /\ result' = Ok(bin_encode(input.val))
    /\ UNCHANGED <<input, decode_table, threads>>

BinIsValid ==
    /\ op = "init"
    /\ input.kind = "text"
    /\ op' = "binary.is_valid"
    /\ result' = Ok(bin_is_valid(input.val))
    /\ UNCHANGED <<input, decode_table, threads>>

BinFormat ==
    /\ op = "init"
    /\ input.kind = "text"
    /\ op' = "binary.format"
    /\ result' = bin_format(input.val)
    /\ UNCHANGED <<input, decode_table, threads>>

HexToUppercase ==
    /\ op = "init"
    /\ input.kind = "text"
    /\ op' = "hex.to_uppercase"
    /\ result' = hex_to_uppercase(input.val)
    /\ UNCHANGED <<input, decode_table, threads>>

HexToLowercase ==
    /\ op = "init"
    /\ input.kind = "text"
    /\ op' = "hex.to_lowercase"
    /\ result' = hex_to_lowercase(input.val)
    /\ UNCHANGED <<input, decode_table, threads>>

HexIsValidStrict ==
    /\ op = "init"
    /\ input.kind = "text"
    /\ op' = "hex.is_valid_strict"
    /\ result' = Ok(hex_is_valid_strict(input.val))
    /\ UNCHANGED <<input, decode_table, threads>>

BinIsValidStrict ==
    /\ op = "init"
    /\ input.kind = "text"
    /\ op' = "binary.is_valid_strict"
    /\ result' = Ok(bin_is_valid_strict(input.val))
    /\ UNCHANGED <<input, decode_table, threads>>

---------------------------------------------------------------------------
(* Calls made by independent threads.  DECODE_TABLE is the one static of   *)
(* the codecs; a thread in decode_bytes reads it once per block of the     *)
(* loop, and the blocks of different threads interleave.                   *)

NumThreads == 2

Threads == 1..NumThreads

Idle == [pc |-> "idle", fn |-> "none", arg |-> <<>>, i |-> 0, res |-> <<>>,
         result |-> Pending]

(* "TQ==", "TWE=", "TWFu", "TWFuTWFu", "TQ==TWE=", "/w==", "TQ=T",         *)
(* "TQ=", "T!==", and an e-acute followed by "TQ".                         *)
ThreadArgs ==
    { <<84, 81, 61, 61>>, <<84, 87, 69, 61>>, <<84, 87, 70, 117>>,
      <<84, 87, 70, 117, 84, 87, 70, 117>>, <<84, 81, 61, 61, 84, 87, 69, 61>>,
      <<47, 119, 61, 61>>, <<84, 81, 61, 84>>, <<84, 81, 61>>,
      <<84, 33, 61, 61>>, <<233, 84, 81>> }

(* One iteration of decode_bytes' loop, reading the table it is handed.    *)
DecodeBlock(tbl, group) ==
    LET a0 == tbl[group[1]]
        a1 == tbl[group[2]]
        a2 == tbl[group[3]]
        a3 == tbl[group[4]]
        x0 == BitOr(Shl(a0, 2), Shr(a1, 4))
        x1 == BitOr(Shl(a1, 4), Shr(a2, 2))
        x2 == BitOr(Shl(a2, 6), a3)
    IN  IF a0 = 255 THEN ErrCh("Invalid base64 character", group[1])
        ELSE IF a1 = 255 THEN ErrCh("Invalid base64 character", group[2])
        ELSE IF a2 = 255 /\ group[3] # PAD
            THEN ErrCh("Invalid base64 character", group[3])
        ELSE IF a3 = 255 /\ group[4] # PAD
            THEN ErrCh("Invalid base64 character", group[4])
        ELSE IF group[3] = PAD THEN
            IF group[4] # PAD
            THEN Err("Invalid padding: expected '=' at position 4")
            ELSE Ok(<<x0>>)
        ELSE IF group[4] = PAD THEN Ok(<<x0, x1>>)
        ELSE Ok(<<x0, x1, x2>>)

(* What the called function returns for decode_bytes' outcome r: decode    *)
(* passes an error on and converts the bytes with String::from_utf8.       *)
Returned(fn, r) ==
    IF fn = "base64.decode" /\ r.ok THEN FromUtf8(r.val) ELSE r

(* A thread enters decode_bytes (directly or through decode): the length   *)
(* checks, then the loop is set up.                                        *)
ThreadBegin(t) ==
    /\ threads[t].pc = "idle"
    /\ \E fn \in {"base64.decode_bytes", "base64.decode"}, s \in ThreadArgs :
        LET len == Len(AsBytes(s))
            th == [Idle EXCEPT !.fn = fn, !.arg = s]
        IN  threads' = [threads EXCEPT ![t] =
                IF len % 4 # 0 THEN
                    [th EXCEPT !.pc = "done",
                        !.result = Err("Base64 input length must be multiple of 4")]
                ELSE IF len \div 4 = 0 THEN
                    [th EXCEPT !.pc = "done", !.result = Returned(fn, Ok(<<>>))]
                ELSE [th EXCEPT !.pc = "loop"]]
    /\ UNCHANGED <<input, op, result, decode_table>>

(* One block of a thread's loop: four reads of the table, then an early    *)
(* return or the pushes; after the last block the function returns.        *)
ThreadBlock(t) ==
    /\ threads[t].pc = "loop"
    /\ LET th == threads[t]
           bytes == AsBytes(th.arg)
           start == th.i * 4
           g == DecodeBlock(decode_table, SubSeq(bytes, start + 1, start + 4))
       IN  threads' = [threads EXCEPT ![t] =
                IF ~g.ok THEN [th EXCEPT !.pc = "done", !.result = g]
                ELSE IF th.i + 1 < Len(bytes) \div 4 THEN
                    [th EXCEPT !.i = th.i + 1, !.res = th.res \o g.val]
                ELSE [th EXCEPT !.pc = "done", !.i = th.i + 1,
                        !.res = th.res \o g.val,
                        !.result = Returned(th.fn, Ok(th.res \o g.val))]]
    /\ UNCHANGED <<input, op, result, decode_table>>

(* A call that works on its arguments and locals only.                     *)
ThreadLocalCall(t) ==
    /\ threads[t].pc = "idle"
    /\ \E s \in ThreadArgs :
        \/ threads' = [threads EXCEPT ![t] =
                [Idle EXCEPT !.pc = "done", !.fn = "base64.encode", !.arg = s,
                    !.result = Ok(b64_encode(s))]]
        \/ threads' = [threads EXCEPT ![t] =
                [Idle EXCEPT !.pc = "done", !.fn = "base64.is_valid", !.arg = s,
                    !.result = Ok(b64_is_valid(s))]]
    /\ UNCHANGED <<input, op, result, decode_table>>

---------------------------------------------------------------------------
(* Specifications                                                          *)

NoThreads ==
    /\ decode_table = DECODE_TABLE
    /\ threads = [t \in Threads |-> Idle]

(* Hex and binary codecs.                                                  *)
Init ==
    /\ input \in {Text(t) : t \in Texts}
    /\ op = "init"
    /\ result = Pending
    /\ NoThreads

Next ==
    \/ HexClean \/ HexDecode \/ HexEncode \/ HexIsValid \/ HexFormat
    \/ BinClean \/ BinDecode \/ BinEncode \/ BinIsValid \/ BinFormat
    \/ HexToUppercase \/ HexToLowercase \/ HexIsValidStrict \/ BinIsValidStrict

Spec == Init /\ [][Next]_vars

(* Base64 codec.                                                           *)
InitB64 ==
    /\ input \in {Bytes(b) : b \in ByteBufs} \cup {Text(t) : t \in B64Texts}
    /\ op = "init"
    /\ result = Pending
    /\ NoThreads

NextB64 ==
    \/ Base64EncodeBytes \/ Base64Encode \/ Base64DecodeBytes
    \/ Base64Decode \/ Base64IsValid

SpecB64 == InitB64 /\ [][NextB64]_vars

(* Every codec function on every input.                                    *)
InitAll ==
    /\ input \in {Bytes(b) : b \in ByteBufs} \cup {Text(t) : t \in B64Texts \cup Texts}
    /\ op = "init"
    /\ result = Pending
    /\ NoThreads

NextAll == Next \/ NextB64

SpecAll == InitAll /\ [][NextAll]_vars

(* Threads calling the Base64 codec side by side.                          *)
InitThreads ==
    /\ input = Text(<<>>)
    /\ op = "init"
    /\ result = Pending
    /\ NoThreads

NextThreads ==
    \E t \in Threads : ThreadBegin(t) \/ ThreadBlock(t) \/ ThreadLocalCall(t)

SpecThreads == InitThreads /\ [][NextThreads]_vars

---------------------------------------------------------------------------
(* Properties of the Base64 codec (checked under SpecB64)                  *)

IsUtf8(bs) == FromUtf8(bs).ok

(* The number of '=' at the end of t.                                      *)
TrailingPads(t) ==
    Cardinality({k \in 1..Len(t) : \A j \in k..Len(t) : t[j] = 61})

B64Alphabet == (65..90) \cup (97..122) \cup (48..57) \cup {43, 47}

(* C1: for every byte buffer b, valid UTF-8 or not,                        *)
(* decode_bytes(encode_bytes(b)) succeeds and returns exactly b.           *)
C1_Base64RoundTrip ==
    op = "base64.encode_bytes" => decode_bytes(result.val) = Ok(input.val)

C1_Witness ==
    /\ op = "base64.encode_bytes"
    /\ Len(input.val) = 4
    /\ ~IsUtf8(input.val)
    /\ decode_bytes(result.val) = Ok(input.val)

(* C5: is_valid returns false on every input in which some '=' is followed *)
(* by a character other than '=' (so is_valid("ab=c") is false).           *)
C5_PaddingOnlyTrailing ==
    (/\ op = "base64.is_valid"
     /\ \E i \in 1..Len(input.val) : \E j \in (i + 1)..Len(input.val) :
            input.val[i] = 61 /\ input.val[j] # 61)
        => result.val = FALSE

(* C6: whenever is_valid(s) is false, decode_bytes(s) returns an           *)
(* InvalidSyntax error and never a value.                                  *)
C6_InvalidNeverDecodes ==
    (op = "base64.decode_bytes" /\ ~b64_is_valid(input.val))
        => (~result.ok /\ result.kind = "InvalidSyntax")

(* C8: encode_bytes of n bytes returns 4*ceil(n/3) characters, each an     *)
(* alphabet symbol or '=', ending in 0, 2 or 1 '=' for n mod 3 = 0, 1, 2.  *)
C8_EncodeLength ==
    op = "base64.encode_bytes" =>
        LET n == Len(input.val)
            out == result.val
        IN  /\ result.ok
            /\ Len(out) = 4 * ((n + 2) \div 3)
            /\ Len(out) % 4 = 0
            /\ \A k \in 1..Len(out) : out[k] \in B64Alphabet \cup {61}
            /\ TrailingPads(out) = (CASE n % 3 = 0 -> 0 [] n % 3 = 1 -> 2 [] OTHER -> 1)
            /\ \A k \in 1..(Len(out) - TrailingPads(out)) : out[k] # 61

C8_Witness ==
    /\ op = "base64.encode_bytes"
    /\ Len(input.val) = 4
    /\ Len(result.val) = 8
    /\ TrailingPads(result.val) = 2

(* C10: decode_bytes of an input whose byte length is not a multiple of 4  *)
(* returns the length error whatever its characters are; the empty input   *)
(* decodes to the empty buffer.                                            *)
C10_LengthFirst ==
    op = "base64.decode_bytes" =>
        /\ Len(AsBytes(input.val)) % 4 # 0
            => result = Err("Base64 input length must be multiple of 4")
        /\ input.val = <<>> => result = Ok(<<>>)

C10_Witness ==
    /\ op = "base64.decode_bytes"
    /\ Len(AsBytes(input.val)) % 4 # 0
    /\ \E k \in 1..Len(input.val) : input.val[k] \notin B64Alphabet \cup {61}
    /\ result.msg = "Base64 input length must be multiple of 4"

---------------------------------------------------------------------------
(* Properties of the hex and binary codecs (checked under Spec)            *)

HexDigitCount(t) == Cardinality({k \in 1..Len(t) : is_ascii_hexdigit(t[k])})

BinDigitCount(t) == Cardinality({k \in 1..Len(t) : t[k] \in {48, 49}})

IsSyntaxError(r) == ~r.ok /\ r.kind = "InvalidSyntax"

(* The byte whose bits, most significant first, are digits 8i..8i+7 of d.  *)
MsbByte(d, i) ==
    LET b(j) == d[8 * i + j + 1] - 48
    IN  128 * b(0) + 64 * b(1) + 32 * b(2) + 16 * b(3)
            + 8 * b(4) + 4 * b(5) + 2 * b(6) + b(7)

(* The '0'/'1' characters of t, in order.                                  *)
DigitsOf(t) == SelectSeq(t, LAMBDA c : c \in {48, 49})

UpperHexDigit(n) == IF n < 10 THEN 48 + n ELSE 55 + n

(* C2: for every text t, binary.decode(binary.encode(t)) succeeds and      *)
(* returns exactly t.                                                      *)
C2_BinaryRoundTrip ==
    op = "binary.encode" => bin_decode(result.val) = Ok(input.val)

(* C3: for every text t, hex.decode(hex.encode(t)) succeeds and returns    *)
(* exactly t, the separating spaces being ignored.                         *)
C3_HexRoundTrip ==
    op = "hex.encode" => hex_decode(result.val) = Ok(input.val)

C3_Witness ==
    /\ op = "hex.encode"
    /\ Len(input.val) >= 2
    /\ \E k \in 1..Len(input.val) : input.val[k] >= 128
    /\ \E k \in 1..Len(result.val) : result.val[k] = 32
    /\ hex_decode(result.val) = Ok(input.val)

(* C4: on an input of '0', '1' and whitespace with 8k digits,              *)
(* binary.decode assembles k bytes, byte i from digits 8i..8i+7 read       *)
(* most significant bit first, and returns them as text when they are      *)
(* valid UTF-8 (so binary.decode("01000001") is "A").                      *)
C4_BinaryDecodeMsbFirst ==
    (/\ op = "binary.decode"
     /\ \A k \in 1..Len(input.val) :
            input.val[k] \in {48, 49} \/ is_whitespace(input.val[k])
     /\ BinDigitCount(input.val) % 8 = 0)
        => LET d == DigitsOf(input.val)
               bytes == [i \in 1..(Len(d) \div 8) |-> MsbByte(d, i - 1)]
           IN  result = FromUtf8(bytes)

(* C7: whenever is_valid(x) is false (the empty input included),           *)
(* decode(x) and format(x) return an InvalidSyntax error, for hex and      *)
(* for binary.                                                             *)
C7_InvalidNeverDecodesNorFormats ==
    /\ (op \in {"hex.decode", "hex.format"} /\ ~hex_is_valid(input.val))
            => IsSyntaxError(result)
    /\ (op \in {"binary.decode", "binary.format"} /\ ~bin_is_valid(input.val))
            => IsSyntaxError(result)

(* C7 as amended: on an input is_valid rejects, decode returns an          *)
(* InvalidSyntax error unless the input is empty, which decodes to the     *)
(* empty text; format returns an InvalidSyntax error iff the number of     *)
(* alphabet digits in the input is zero or not a multiple of the group     *)
(* size, and a value otherwise.                                            *)
C7_InvalidDecodeFormat ==
    /\ (op = "hex.decode" /\ ~hex_is_valid(input.val))
            => IF input.val = <<>> THEN result = Ok(<<>>) ELSE IsSyntaxError(result)
    /\ (op = "binary.decode" /\ ~bin_is_valid(input.val))
            => IF input.val = <<>> THEN result = Ok(<<>>) ELSE IsSyntaxError(result)
    /\ (op = "hex.format" /\ ~hex_is_valid(input.val))
            => LET n == HexDigitCount(input.val)
               IN  IF n = 0 \/ n % 2 # 0 THEN IsSyntaxError(result) ELSE result.ok
    /\ (op = "binary.format" /\ ~bin_is_valid(input.val))
            => LET n == BinDigitCount(input.val)
               IN  IF n = 0 \/ n % 8 # 0 THEN IsSyntaxError(result) ELSE result.ok

C7_Witness ==
    /\ op = "hex.decode"
    /\ ~hex_is_valid(input.val)
    /\ HexDigitCount(input.val) = 2
    /\ is_ascii_hexdigit(input.val[Len(input.val)])
    /\ result = Err("Non-hex character detected")

(* C9: hex.encode renders byte i of the UTF-8 form of the text as two      *)
(* uppercase hex digits, high nibble first, and binary.encode as eight     *)
(* binary digits, most significant first; groups are joined by single      *)
(* spaces, so n >= 1 bytes give 3n-1 and 9n-1 characters and the empty     *)
(* text gives the empty string.  Neither fails.                            *)
C9_EncodeShape ==
    LET bs == AsBytes(input.val)
        n == Len(bs)
        out == result.val
    IN  /\ op = "hex.encode" =>
            /\ result.ok
            /\ Len(out) = IF n = 0 THEN 0 ELSE 3 * n - 1
            /\ \A i \in 0..(n - 1) :
                /\ out[3 * i + 1] = UpperHexDigit(bs[i + 1] \div 16)
                /\ out[3 * i + 2] = UpperHexDigit(bs[i + 1] % 16)
                /\ i < n - 1 => out[3 * i + 3] = 32
        /\ op = "binary.encode" =>
            /\ result.ok
            /\ Len(out) = IF n = 0 THEN 0 ELSE 9 * n - 1
            /\ \A i \in 0..(n - 1) :
                /\ \A j \in 0..7 : out[9 * i + j + 1] \in {48, 49}
                /\ MsbByte(SubSeq(out, 9 * i + 1, 9 * i + 8), 0) = bs[i + 1]
                /\ i < n - 1 => out[9 * i + 9] = 32

C9_Witness ==
    /\ op = "hex.encode"
    /\ input.val = <<65, 66>>
    /\ result.val = <<52, 49, 32, 52, 50>>

---------------------------------------------------------------------------
(* Further properties of the Base64 codec (checked under SpecB64)          *)

(* The symbol of a 6-bit index, and the index of a byte (64 if none).      *)
SymbolOf(i) ==
    IF i < 26 THEN 65 + i
    ELSE IF i < 52 THEN 71 + i
    ELSE IF i < 62 THEN i - 4
    ELSE IF i = 62 THEN 43 ELSE 47

IndexOf(b) ==
    IF b >= 65 /\ b <= 90 THEN b - 65
    ELSE IF b >= 97 /\ b <= 122 THEN b - 71
    ELSE IF b >= 48 /\ b <= 57 THEN b + 4
    ELSE IF b = 43 THEN 62
    ELSE IF b = 47 THEN 63
    ELSE 64

(* C12: base64.decode fails iff decode_bytes fails or its bytes are not    *)
(* UTF-8, always with InvalidSyntax; when it succeeds its text has exactly *)
(* the bytes decode_bytes returned.  decode_bytes does not look at UTF-8.  *)
C12_Utf8OnlyInWrapper ==
    /\ op = "base64.decode" =>
        LET r == decode_bytes(input.val)
        IN  /\ ~result.ok <=> (~r.ok \/ ~IsUtf8(r.val))
            /\ ~result.ok => IsSyntaxError(result)
            /\ ~r.ok => result = r
            /\ result.ok => AsBytes(result.val) = r.val
    /\ (op = "base64.encode_bytes" /\ ~IsUtf8(input.val)) =>
        /\ decode_bytes(result.val) = Ok(input.val)
        /\ b64_decode(result.val) = Err("Invalid UTF-8")

C12_Witness ==
    /\ op = "base64.decode"
    /\ decode_bytes(input.val).ok
    /\ ~IsUtf8(decode_bytes(input.val).val)
    /\ result = Err("Invalid UTF-8")

(* C16: encode_bytes packs each full group (b0, b1, b2) into the symbols   *)
(* of b0>>2, ((b0&3)<<4)|(b1>>4), ((b1&15)<<2)|(b2>>6), b2&63; a trailing  *)
(* byte gives the symbols of b0>>2, (b0&3)<<4 and "=="; a trailing pair    *)
(* gives the symbols of b0>>2, ((b0&3)<<4)|(b1>>4), (b1&15)<<2 and "=".    *)
C16_EncodePacking ==
    op = "base64.encode_bytes" =>
        LET data == input.val
            n == Len(data)
            out == result.val
            full == n \div 3
            b(g, k) == data[3 * g + k + 1]
            o(g, k) == out[4 * g + k + 1]
        IN  /\ \A g \in 0..(full - 1) :
                /\ o(g, 0) = SymbolOf(b(g, 0) \div 4)
                /\ o(g, 1) = SymbolOf((b(g, 0) % 4) * 16 + b(g, 1) \div 16)
                /\ o(g, 2) = SymbolOf((b(g, 1) % 16) * 4 + b(g, 2) \div 64)
                /\ o(g, 3) = SymbolOf(b(g, 2) % 64)
            /\ n % 3 = 0 => Len(out) = 4 * full
            /\ n % 3 = 1 =>
                /\ Len(out) = 4 * full + 4
                /\ o(full, 0) = SymbolOf(b(full, 0) \div 4)
                /\ o(full, 1) = SymbolOf((b(full, 0) % 4) * 16)
                /\ o(full, 2) = 61 /\ o(full, 3) = 61
            /\ n % 3 = 2 =>
                /\ Len(out) = 4 * full + 4
                /\ o(full, 0) = SymbolOf(b(full, 0) \div 4)
                /\ o(full, 1) = SymbolOf((b(full, 0) % 4) * 16 + b(full, 1) \div 16)
                /\ o(full, 2) = SymbolOf((b(full, 1) % 16) * 4)
                /\ o(full, 3) = 61

C16_Witness ==
    /\ op = "base64.encode_bytes"
    /\ input.val = <<77>>
    /\ result.val = <<84, 81, 61, 61>>

(* Whether decode_bytes turns the 4-byte group g down, and the bytes an    *)
(* accepted group stands for.                                              *)
GroupRejected(g) ==
    \/ IndexOf(g[1]) = 64
    \/ IndexOf(g[2]) = 64
    \/ (IndexOf(g[3]) = 64 /\ g[3] # 61)
    \/ (IndexOf(g[4]) = 64 /\ g[4] # 61)
    \/ (g[3] = 61 /\ g[4] # 61)

GroupBytes(g) ==
    LET a(k) == IndexOf(g[k])
        y0 == (a(1) * 4 + a(2) \div 16) % 256
        y1 == ((a(2) * 16) % 256) + a(3) \div 4
        y2 == ((a(3) * 64) % 256) + a(4)
    IN  IF g[3] = 61 THEN <<y0>>
        ELSE IF g[4] = 61 THEN <<y0, y1>>
        ELSE <<y0, y1, y2>>

RECURSIVE ConcatGroups(_, _)
ConcatGroups(bytes, k) ==
    IF 4 * k >= Len(bytes) THEN <<>>
    ELSE GroupBytes(SubSeq(bytes, 4 * k + 1, 4 * k + 4)) \o ConcatGroups(bytes, k + 1)

(* C17: on an input of 4k bytes decode_bytes fails, returning no bytes,    *)
(* iff some group is rejected: its first or second symbol is outside the   *)
(* alphabet, its third or fourth is neither a symbol nor '=', or its third *)
(* is '=' and its fourth is not (then, if that is the first defect, with   *)
(* the padding error).  Otherwise the result is, group by group, 1 byte    *)
(* when the third symbol is '=', 2 when only the fourth is, else 3.        *)
C17_GroupRules ==
    (op = "base64.decode_bytes" /\ Len(AsBytes(input.val)) % 4 = 0) =>
        LET bytes == AsBytes(input.val)
            grp(k) == SubSeq(bytes, 4 * k + 1, 4 * k + 4)
            bad == {k \in 0..((Len(bytes) \div 4) - 1) : GroupRejected(grp(k))}
            first == CHOOSE k \in bad : \A j \in bad : k <= j
            g == grp(first)
            padOnly == /\ IndexOf(g[1]) # 64 /\ IndexOf(g[2]) # 64
                       /\ g[3] = 61 /\ g[4] # 61 /\ IndexOf(g[4]) # 64
        IN  IF bad = {} THEN result = Ok(ConcatGroups(bytes, 0))
            ELSE /\ IsSyntaxError(result)
                 /\ result.val = <<>>
                 /\ padOnly <=> result.msg = "Invalid padding: expected '=' at position 4"

C17_Witness ==
    /\ op = "base64.decode_bytes"
    /\ Len(input.val) = 8
    /\ input.val[3] = 61
    /\ input.val[7] # 61
    /\ input.val[8] = 61
    /\ result.ok
    /\ Len(result.val) = 3

(* C18: is_valid returns false iff the byte length is not a multiple of 4, *)
(* or a byte is outside the alphanumerics, '+', '/' and '=', or a '=' is   *)
(* at a byte index below len - 2; it returns true otherwise.               *)
C18_IsValidExact ==
    op = "base64.is_valid" =>
        LET bytes == AsBytes(input.val)
            len == Len(bytes)
            allowed == (48..57) \cup (65..90) \cup (97..122) \cup {43, 47, 61}
        IN  /\ result.ok
            /\ result.val = FALSE <=>
                \/ len % 4 # 0
                \/ \E k \in 1..len : bytes[k] \notin allowed
                \/ \E k \in 1..len : bytes[k] = 61 /\ k - 1 < len - 2
            /\ result.val \in BOOLEAN
            /\ input.val = <<>> => result.val = TRUE

C18_Witness ==
    /\ op = "base64.is_valid"
    /\ Len(input.val) = 8
    /\ input.val[7] = 61
    /\ input.val[8] = 61
    /\ result.val = TRUE

---------------------------------------------------------------------------
(* Further properties of the hex and binary codecs (checked under Spec)    *)

HexDigitsOf(t) == SelectSeq(t, LAMBDA c : c \in (48..57) \cup (65..70) \cup (97..102))

OnlyDigitsAndSpace(t, digits) ==
    \A k \in 1..Len(t) : t[k] \in digits \/ is_whitespace(t[k])

(* c cut into groups of size characters joined by single spaces.           *)
IsGrouped(out, c, size) ==
    LET n == Len(c)
    IN  /\ Len(out) = n + (n \div size) - 1
        /\ \A k \in 1..n : out[k + ((k - 1) \div size)] = c[k]
        /\ \A g \in 1..((n \div size) - 1) : out[g * (size + 1)] = 32

(* C13: hex.decode and binary.decode return the "non-hex/non-binary        *)
(* character detected" error whenever the input holds a character that is  *)
(* neither a digit nor whitespace, wherever it stands and whatever the     *)
(* digit count; with no such character and a digit count that is not a     *)
(* multiple of 2 (hex) or 8 (binary) they return the length error.         *)
C13_ScanErrors ==
    /\ op = "hex.decode" =>
        IF ~OnlyDigitsAndSpace(input.val, (48..57) \cup (65..70) \cup (97..102))
        THEN result = Err("Non-hex character detected")
        ELSE HexDigitCount(input.val) % 2 # 0
                => result = Err("Hex string must have even length")
    /\ op = "binary.decode" =>
        IF ~OnlyDigitsAndSpace(input.val, {48, 49})
        THEN result = Err("Non-binary character detected")
        ELSE BinDigitCount(input.val) % 8 # 0
                => result = Err("Binary string must have length multiple of 8")

C13_Witness ==
    /\ op = "binary.decode"
    /\ Len(input.val) = 9
    /\ input.val[1] = 103
    /\ BinDigitCount(input.val) = 8
    /\ result = Err("Non-binary character detected")

(* C14: is_valid_strict is true iff every character is whitespace or a     *)
(* digit and the number of digits is positive and a multiple of 2 (hex)    *)
(* or 8 (binary); whitespace is not counted.                               *)
C14_StrictValidation ==
    /\ op = "hex.is_valid_strict" =>
        (result.val <=>
            /\ OnlyDigitsAndSpace(input.val, (48..57) \cup (65..70) \cup (97..102))
            /\ HexDigitCount(input.val) > 0
            /\ HexDigitCount(input.val) % 2 = 0)
    /\ op = "binary.is_valid_strict" =>
        (result.val <=>
            /\ OnlyDigitsAndSpace(input.val, {48, 49})
            /\ BinDigitCount(input.val) > 0
            /\ BinDigitCount(input.val) % 8 = 0)

C14_Witness ==
    /\ op = "hex.is_valid_strict"
    /\ input.val = <<52, 32, 49, 32, 52, 50>>
    /\ result.val = TRUE

(* C19: with c the digits of the input in order (what clean returns),      *)
(* format returns an InvalidSyntax error iff c is empty or its length is   *)
(* not a multiple of the group size, and otherwise c in groups of 2 (hex)  *)
(* or 8 (binary) digits joined by single spaces, digits unchanged.         *)
C19_Format ==
    /\ op = "hex.clean" => result = Ok(HexDigitsOf(input.val))
    /\ op = "binary.clean" => result = Ok(DigitsOf(input.val))
    /\ op = "hex.format" =>
        LET c == HexDigitsOf(input.val)
        IN  IF Len(c) = 0 \/ Len(c) % 2 # 0 THEN IsSyntaxError(result)
            ELSE result.ok /\ IsGrouped(result.val, c, 2)
    /\ op = "binary.format" =>
        LET c == DigitsOf(input.val)
        IN  IF Len(c) = 0 \/ Len(c) % 8 # 0 THEN IsSyntaxError(result)
            ELSE result.ok /\ IsGrouped(result.val, c, 8)

C19_Witness ==
    /\ op = "binary.format"
    /\ BinDigitCount(input.val) = 16
    /\ result.ok
    /\ Len(result.val) = 17
    /\ result.val[9] = 32

(* C20: to_uppercase and to_lowercase keep the length, replace each byte   *)
(* 'a'..'f' (resp. 'A'..'F') by the letter of the other case, leave every  *)
(* other byte where it is, are idempotent and do not fail.                 *)
C20_CaseFolding ==
    LET ib == AsBytes(input.val)
        ob == AsBytes(result.val)
    IN  /\ op = "hex.to_uppercase" =>
            /\ result.ok
            /\ Len(ob) = Len(ib) /\ Len(result.val) = Len(input.val)
            /\ \A k \in 1..Len(ib) :
                    ob[k] = IF ib[k] \in 97..102 THEN ib[k] - 32 ELSE ib[k]
            /\ hex_to_uppercase(result.val) = result
        /\ op = "hex.to_lowercase" =>
            /\ result.ok
            /\ Len(ob) = Len(ib) /\ Len(result.val) = Len(input.val)
            /\ \A k \in 1..Len(ib) :
                    ob[k] = IF ib[k] \in 65..70 THEN ib[k] + 32 ELSE ib[k]
            /\ hex_to_lowercase(result.val) = result

C20_Witness ==
    /\ op = "hex.to_uppercase"
    /\ \E k \in 1..Len(input.val) : input.val[k] = 97
    /\ \E k \in 1..Len(input.val) : input.val[k] = 103
    /\ \E k \in 1..Len(input.val) : input.val[k] = 70
    /\ result.val # input.val

---------------------------------------------------------------------------
(* Properties of all codecs (checked under SpecAll)                        *)

Alphabet64 == {SymbolOf(i) : i \in 0..63}

(* C11: every call of every codec function finishes with a value or an     *)
(* InvalidSyntax error, never with a panic; binary.decode's match only     *)
(* sees '0' and '1', format's unwrap() calls find a character, and every   *)
(* byte of a Base64 input indexes inside the decode table.                 *)
C11_NoPanic ==
    /\ op # "init" => result.kind \in {"none", "InvalidSyntax"}
    /\ op # "init" => (result.ok <=> result.kind = "none")
    /\ op \in {"binary.decode", "binary.format"} =>
            \A k \in 1..Len(bin_clean(input.val)) : bin_clean(input.val)[k] \in {48, 49}
    /\ op = "hex.format" /\ result.ok =>
            Len(hex_clean(input.val)) >= 2 * (Len(hex_clean(input.val)) \div 2)
    /\ op \in {"base64.decode", "base64.decode_bytes"} =>
            \A k \in 1..Len(AsBytes(input.val)) :
                AsBytes(input.val)[k] \in DOMAIN DECODE_TABLE
    /\ op \in {"base64.encode", "base64.encode_bytes"} =>
            \A k \in 1..Len(result.val) : result.val[k] \in Alphabet64 \cup {61}

C11_Witness ==
    /\ op = "hex.format"
    /\ Len(input.val) > Len(hex_clean(input.val))
    /\ result.ok
    /\ Len(result.val) = 5

---------------------------------------------------------------------------
(* Properties of concurrent calls (checked under SpecThreads)              *)

(* What the function returns when it is called alone.                      *)
Alone(fn, s) ==
    CASE fn = "base64.decode_bytes" -> decode_bytes(s)
      [] fn = "base64.decode" -> b64_decode(s)
      [] fn = "base64.encode" -> Ok(b64_encode(s))
      [] fn = "base64.is_valid" -> Ok(b64_is_valid(s))

(* C15: in every state reached by interleaved calls the decode table maps  *)
(* each of the 64 alphabet symbols to its index and each of the other 192  *)
(* byte values, '=' among them, to 0xFF, and every finished call holds the *)
(* result the same call returns when run alone.                            *)
C15_ConcurrentCalls ==
    /\ DOMAIN decode_table = 0..255
    /\ \A i \in 0..63 : decode_table[SymbolOf(i)] = i
    /\ \A b \in (0..255) \ Alphabet64 : decode_table[b] = 255
    /\ decode_table[61] = 255
    /\ Cardinality(Alphabet64) = 64
    /\ \A t \in Threads :
        threads[t].pc = "done" =>
            threads[t].result = Alone(threads[t].fn, threads[t].arg)

C15_Witness ==
    /\ threads[1].pc = "loop" /\ threads[1].i = 1
    /\ threads[2].pc = "done" /\ threads[2].fn = "base64.decode_bytes"
    /\ threads[2].arg = threads[1].arg
    /\ threads[2].result = Ok(<<77, 97, 110, 77, 97, 110>>)

---------------------------------------------------------------------------
(* Loose validation (checked under Spec)                                   *)

(* C21: is_valid is true iff the input is not empty and every character is *)
(* whitespace or a digit, whatever the number of digits; an input accepted *)
(* by is_valid_strict is accepted by is_valid; an input accepted by        *)
(* is_valid whose digit count is not a multiple of the group size is       *)
(* rejected by decode and by format.                                       *)
C21_LooseValidation ==
    /\ op = "hex.is_valid" =>
        /\ result.val <=>
            (input.val # <<>>
                /\ OnlyDigitsAndSpace(input.val, (48..57) \cup (65..70) \cup (97..102)))
        /\ (result.val /\ HexDigitCount(input.val) % 2 # 0) =>
            (~hex_decode(input.val).ok /\ ~hex_format(input.val).ok)
    /\ op = "binary.is_valid" =>
        /\ result.val <=>
            (input.val # <<>> /\ OnlyDigitsAndSpace(input.val, {48, 49}))
        /\ (result.val /\ BinDigitCount(input.val) % 8 # 0) =>
            (~bin_decode(input.val).ok /\ ~bin_format(input.val).ok)
    /\ (op = "hex.is_valid_strict" /\ result.val) => hex_is_valid(input.val)
    /\ (op = "binary.is_valid_strict" /\ result.val) => bin_is_valid(input.val)
    /\ (op = "hex.decode" /\ HexDigitCount(input.val) % 2 # 0) => ~result.ok
    /\ (op = "hex.format" /\ HexDigitCount(input.val) % 2 # 0) => ~result.ok

C21_Witness ==
    /\ op = "hex.is_valid"
    /\ input.val = <<52, 49, 52>>
    /\ result.val = TRUE
    /\ ~hex_is_valid_strict(input.val)

---------------------------------------------------------------------------
(* Groups of decode_bytes (checked under SpecB64)                          *)

(* Buffers of 0 to 4 bytes to put before and after the encoded input.      *)
JoinBufs ==
    {<<>>, <<77>>, <<77, 97>>, <<77, 97, 110>>, <<255>>, <<0, 255>>,
     <<128, 0, 255, 77>>}

PadCount(t) == Cardinality({k \in 1..Len(t) : t[k] = 61})

(* C22: decode_bytes of encode_bytes(a) followed by encode_bytes(b)        *)
(* succeeds and returns a followed by b, whatever padding ends the first   *)
(* part; every accepted input decodes to 3 bytes per group less one byte   *)
(* per '=' in the input.                                                   *)
C22_GroupsIndependent ==
    /\ op = "base64.encode_bytes" =>
        \A b \in JoinBufs :
            /\ decode_bytes(result.val \o encode_bytes(b)) = Ok(input.val \o b)
            /\ decode_bytes(encode_bytes(b) \o result.val) = Ok(b \o input.val)
    /\ (op = "base64.decode_bytes" /\ result.ok) =>
        Len(result.val) =
            3 * (Len(AsBytes(input.val)) \div 4) - PadCount(AsBytes(input.val))

C22_Witness ==
    /\ op = "base64.decode_bytes"
    /\ input.val = <<84, 81, 61, 61, 84, 81, 61, 61>>
    /\ result = Ok(<<77, 77>>)

(* t with its k-th character replaced by c.                                *)
WithChar(t, k, c) == [t EXCEPT ![k] = c]

(* The positions of the last symbol before the padding, one per padded     *)
(* group, with the number of its low bits that reach no output byte.       *)
LastSymbols(t) ==
    {<<4 * g + 2, 4>> : g \in {g \in 0..((Len(t) \div 4) - 1) : t[4 * g + 3] = 61}}
        \cup {<<4 * g + 3, 2>> :
                g \in {g \in 0..((Len(t) \div 4) - 1) :
                            t[4 * g + 3] # 61 /\ t[4 * g + 4] = 61}}

(* C23: in an accepted input, replacing the symbol before "==" by one that *)
(* differs only in the low 4 bits of its index, or the symbol before a     *)
(* single "=" by one that differs only in the low 2 bits, gives an input   *)
(* that is accepted too and decodes to the same bytes; encode_bytes gives  *)
(* the input back only when those bits are all zero, as they are in every  *)
(* output of encode_bytes.                                                 *)
C23_UnusedBitsIgnored ==
    /\ (op = "base64.decode_bytes" /\ result.ok) =>
        /\ \A p \in LastSymbols(input.val) : \A j \in 0..63 :
                (j \div Pow2(p[2]) = IndexOf(input.val[p[1]]) \div Pow2(p[2]))
                    => decode_bytes(WithChar(input.val, p[1], SymbolOf(j))) = result
        /\ (\E p \in LastSymbols(input.val) :
                IndexOf(input.val[p[1]]) % Pow2(p[2]) # 0)
                    => encode_bytes(result.val) # input.val
    /\ op = "base64.encode_bytes" =>
        /\ \A p \in LastSymbols(result.val) :
                IndexOf(result.val[p[1]]) % Pow2(p[2]) = 0
        /\ encode_bytes(decode_bytes(result.val).val) = result.val

C23_Witness ==
    /\ op = "base64.decode_bytes"
    /\ input.val = <<84, 82, 61, 61>>
    /\ result = Ok(<<77>>)
    /\ decode_bytes(<<84, 81, 61, 61>>) = result

---------------------------------------------------------------------------
(* Case and whitespace in hex.decode (checked under Spec)                  *)

HexAlphabet == (48..57) \cup (65..70) \cup (97..102)

(* The hex digits of t, whitespace removed and case folded.                *)
FoldedDigits(t) == hex_to_uppercase(hex_clean(t)).val

OtherCase(c) ==
    IF c \in 65..70 THEN c + 32 ELSE IF c \in 97..102 THEN c - 32 ELSE c

(* t with one letter in the other case, one space put in, or one           *)
(* whitespace character taken out.                                         *)
Variants(t) ==
    {[t EXCEPT ![k] = OtherCase(t[k])] : k \in 1..Len(t)}
        \cup {SubSeq(t, 1, k) \o <<32>> \o SubSeq(t, k + 1, Len(t)) : k \in 0..Len(t)}
        \cup {SubSeq(t, 1, k - 1) \o SubSeq(t, k + 1, Len(t)) :
                k \in {k \in 1..Len(t) : is_whitespace(t[k])}}

OtherTexts == SeqsUpTo({52, 65, 97, 102, 32}, 3)

(* C24: for inputs of hex digits and whitespace only, hex.decode returns   *)
(* the same result for any two inputs with the same digits after removing  *)
(* whitespace and folding case, and the same for the input in lowercase,   *)
(* in uppercase and cleaned.                                               *)
C24_CaseAndSpaceIrrelevant ==
    (op = "hex.decode" /\ OnlyDigitsAndSpace(input.val, HexAlphabet)) =>
        /\ \A y \in Variants(input.val) :
                FoldedDigits(y) = FoldedDigits(input.val) /\ hex_decode(y) = result
        /\ \A y \in OtherTexts :
                FoldedDigits(y) = FoldedDigits(input.val) => hex_decode(y) = result
        /\ hex_decode(hex_to_lowercase(input.val).val) = result
        /\ hex_decode(hex_to_uppercase(input.val).val) = result
        /\ hex_decode(hex_clean(input.val)) = result

C24_Witness ==
    /\ op = "hex.decode"
    /\ input.val = <<52, 32, 97>>
    /\ result = Ok(<<74>>)
    /\ hex_decode(<<52, 65>>) = result

====
